---- MODULE Spec2Model ----
(***************************************************************************)
(* A model of src/rfid.py: the RFID class driving an MFRC522-style reader  *)
(* chip over a register bus.  The chip is the environment: every value the *)
(* code reads from a chip register is an input drawn from a small set.     *)
(* Bytes are naturals in 0..255, Python lists are sequences, Python        *)
(* strings are sequences of one-character strings.                         *)
(***************************************************************************)
EXTENDS Integers, Sequences, FiniteSets, TLC

(* ------------------------------------------------------------------ *)
(* Program constants (src/rfid.py:44-64, 137, 183)                    *)
(* ------------------------------------------------------------------ *)
CMD_IDLE == 0
CMD_CALC_CRC == 3
CMD_TRANCEIVE == 12
CMD_MF_AUTHENT == 14
TAG_CMD_REQIDL == 38
TAG_CMD_ANTCOL1 == 147
TAG_CMD_ANTCOL2 == 149
TAG_CMD_ANTCOL3 == 151
OK == 1
NOTAGERR == 2
ERR == 3
\* i = 20000, the poll budget of _tocard
PollBudget == 20000
\* i = 0xFF, the poll budget of _crc
CrcBudget == 255
\* 0x88, the cascade-tag marker tested by _readTagID
CascadeTag == 136
\* 0x20 and 0x70, the second byte of the anticollision and select frames
NVB_ANTICOLL == 32
NVB_SELECT == 112

(* ------------------------------------------------------------------ *)
(* Python's integer operators on non-negative operands                *)
(* ------------------------------------------------------------------ *)
RECURSIVE BitAnd(_, _)
BitAnd(a, b) ==
    IF a = 0 \/ b = 0 THEN 0
    ELSE ((a % 2) * (b % 2)) + (2 * BitAnd(a \div 2, b \div 2))

RECURSIVE BitOr(_, _)
BitOr(a, b) ==
    IF a = 0 THEN b
    ELSE IF b = 0 THEN a
    ELSE (IF (a % 2) + (b % 2) > 0 THEN 1 ELSE 0) + (2 * BitOr(a \div 2, b \div 2))

RECURSIVE BitXor(_, _)
BitXor(a, b) ==
    IF a = 0 THEN b
    ELSE IF b = 0 THEN a
    ELSE (((a % 2) + (b % 2)) % 2) + (2 * BitXor(a \div 2, b \div 2))

\* reg & (~mask) on an 8-bit register value
ClearBits(v, mask) == BitAnd(v, 255 - mask)

\* s[lo:hi] of Python, 0-based and half-open, clipped to the list
Slice(s, lo, hi) ==
    LET h == IF hi > Len(s) THEN Len(s) ELSE hi
    IN  IF lo >= h THEN << >> ELSE [j \in 1..(h - lo) |-> s[lo + j]]

(* ------------------------------------------------------------------ *)
(* _tocard: what one chip command returns, given what the chip shows. *)
(* A chip reply is a record                                            *)
(*   quiet : the number of leading polls of COM_IRQ that read 0        *)
(*   irq   : the value every later poll of COM_IRQ reads               *)
(*   err   : the value of the ERROR register                           *)
(*   level : the value of the FIFO_LEVEL register                      *)
(*   ctrl  : the value of the CONTROL register                         *)
(*   data  : the bytes successive reads of FIFO_DATA return            *)
(* ------------------------------------------------------------------ *)
irq_en_of(cmd) ==
    IF cmd = CMD_MF_AUTHENT THEN 18
    ELSE IF cmd = CMD_TRANCEIVE THEN 119
    ELSE 0

wait_irq_of(cmd) ==
    IF cmd = CMD_MF_AUTHENT THEN 16
    ELSE IF cmd = CMD_TRANCEIVE THEN 48
    ELSE 0

\* does a value of COM_IRQ end the polling loop (lines 141-144)
IrqBreaks(cmd, n) == BitAnd(n, wait_irq_of(cmd)) # 0 \/ BitAnd(n, 1) # 0

\* PollLoop that polls until a flag is read, whatever the budget
MutPollLoopNoBudget(cmd, reply) ==
    LET polls == reply.quiet + 1
    IN  [polls |-> polls,
         i     |-> IF polls < PollBudget THEN PollBudget - polls ELSE 1,
         n     |-> reply.irq]

\* The loop of lines 137-146 run against a reply: the poll that ends it
\* (each poll reads COM_IRQ once and decrements i), and i and n on exit.
PollLoop(cmd, reply) ==
    LET flagged == IrqBreaks(cmd, reply.irq)
        polls   == IF flagged /\ reply.quiet + 1 <= PollBudget
                   THEN reply.quiet + 1 ELSE PollBudget
    IN  [polls |-> polls,
         i     |-> PollBudget - polls,
         n     |-> IF polls > reply.quiet THEN reply.irq ELSE 0]

\* lines 156-168: the response length in bits and the drained bytes
DrainFifo(reply) ==
    LET n0    == reply.level
        lbits == BitAnd(reply.ctrl, 7)
        bits  == IF lbits # 0 THEN (n0 - 1) * 8 + lbits ELSE n0 * 8
        n     == IF n0 = 0 THEN 1 ELSE IF n0 > 16 THEN 16 ELSE n0
    IN  [bits |-> bits, recv |-> [j \in 1..n |-> reply.data[j]]]

\* tocard with the test of the poll budget (line 149) left out
MutTocardNoBudget(cmd, send, reply) ==
    LET loop == PollLoop(cmd, reply)
    IN  IF BitAnd(reply.err, 27) = 0
        THEN IF BitAnd(BitAnd(loop.n, irq_en_of(cmd)), 1) # 0
             THEN [stat |-> NOTAGERR, recv |-> << >>, bits |-> 0]
             ELSE IF cmd = CMD_TRANCEIVE
             THEN [stat |-> OK, recv |-> DrainFifo(reply).recv,
                   bits |-> DrainFifo(reply).bits]
             ELSE [stat |-> OK, recv |-> << >>, bits |-> 0]
        ELSE [stat |-> ERR, recv |-> << >>, bits |-> 0]

\* tocard with the timer test of line 153 not masked by irq_en
MutTocardNoIrqEn(cmd, send, reply) ==
    LET loop == PollLoop(cmd, reply)
    IN  IF loop.i # 0
        THEN IF BitAnd(reply.err, 27) = 0
             THEN IF BitAnd(loop.n, 1) # 0
                  THEN [stat |-> NOTAGERR, recv |-> << >>, bits |-> 0]
                  ELSE IF cmd = CMD_TRANCEIVE
                  THEN [stat |-> OK, recv |-> DrainFifo(reply).recv,
                        bits |-> DrainFifo(reply).bits]
                  ELSE [stat |-> OK, recv |-> << >>, bits |-> 0]
             ELSE [stat |-> ERR, recv |-> << >>, bits |-> 0]
        ELSE [stat |-> ERR, recv |-> << >>, bits |-> 0]

tocard(cmd, send, reply) ==
    LET loop == PollLoop(cmd, reply)
    IN  IF loop.i # 0
        THEN IF BitAnd(reply.err, 27) = 0
             THEN IF BitAnd(BitAnd(loop.n, irq_en_of(cmd)), 1) # 0
                  THEN [stat |-> NOTAGERR, recv |-> << >>, bits |-> 0]
                  ELSE IF cmd = CMD_TRANCEIVE
                  THEN [stat |-> OK, recv |-> DrainFifo(reply).recv,
                        bits |-> DrainFifo(reply).bits]
                  ELSE [stat |-> OK, recv |-> << >>, bits |-> 0]
             ELSE [stat |-> ERR, recv |-> << >>, bits |-> 0]
        ELSE [stat |-> ERR, recv |-> << >>, bits |-> 0]

\* BIT_FRAMING after _tocard: _sflags(0x00), _sflags(0x80) for a Transceive,
\* then _cflags(0x80) (lines 131-135, 147); the register keeps what is written
FramingAfterTocard(cmd, framing) ==
    LET a == IF cmd = CMD_TRANCEIVE THEN BitOr(BitOr(framing, 0), 128) ELSE framing
    IN  ClearBits(a, 128)

\* one register write of _tocard
RegWrite(reg, val) == [reg |-> reg, val |-> val]

\* tocardWrites with the start-send bit set before the command is written
MutTocardWritesSetFirst(cmd, send, framing, level) ==
    LET tr == cmd = CMD_TRANCEIVE
        f1 == IF tr THEN BitOr(framing, 0) ELSE framing
        f2 == IF tr THEN BitOr(f1, 128) ELSE f1
    IN  <<RegWrite("COMMAND", CMD_IDLE),
          RegWrite("COM_IRQ", 127),
          RegWrite("FIFO_LEVEL", BitOr(level, 128)),
          RegWrite("FIFO_DATA", send)>>
        \o (IF tr THEN <<RegWrite("BIT_FRAMING", f1)>> ELSE << >>)
        \o (IF tr THEN <<RegWrite("BIT_FRAMING", f2)>> ELSE << >>)
        \o <<RegWrite("COMMAND", cmd)>>
        \o <<RegWrite("BIT_FRAMING", ClearBits(f2, 128))>>

\* lines 127-135 and 147: the registers _tocard writes, in order, when
\* BIT_FRAMING holds `framing` and FIFO_LEVEL reads `level` on entry;
\* _sflags and _cflags write back what they read, changed by the mask
tocardWrites(cmd, send, framing, level) ==
    LET tr == cmd = CMD_TRANCEIVE
        f1 == IF tr THEN BitOr(framing, 0) ELSE framing
        f2 == IF tr THEN BitOr(f1, 128) ELSE f1
    IN  <<RegWrite("COMMAND", CMD_IDLE),
          RegWrite("COM_IRQ", 127),
          RegWrite("FIFO_LEVEL", BitOr(level, 128)),
          RegWrite("FIFO_DATA", send)>>
        \o (IF tr THEN <<RegWrite("BIT_FRAMING", f1)>> ELSE << >>)
        \o <<RegWrite("COMMAND", cmd)>>
        \o (IF tr THEN <<RegWrite("BIT_FRAMING", f2)>> ELSE << >>)
        \o <<RegWrite("BIT_FRAMING", ClearBits(f2, 128))>>

(* ------------------------------------------------------------------ *)
(* antennaOn, antennaOff: the TX_CONTROL register before and after     *)
(* ------------------------------------------------------------------ *)
\* Python's ~x on an int
PyInvert(x) == (0 - x) - 1

\* lines 287-289: the test is on the truth of ~(reg & 0x03)
antennaOn(txControl) ==
    IF PyInvert(BitAnd(txControl, 3)) # 0
    THEN BitOr(txControl, 131)
    ELSE txControl

\* lines 292-294: _cflags is given a bytes mask, whose ~ raises before
\* any write, so the register is left as it was on that branch too
antennaOff(txControl) ==
    IF ~(PyInvert(BitAnd(txControl, 3)) # 0)
    THEN txControl
    ELSE txControl

(* ------------------------------------------------------------------ *)
(* _crc: a CRC reply is [quiet, lsb, msb]: the polls of DIV_IRQ that   *)
(* read the done flag clear, and the two result registers.            *)
(* ------------------------------------------------------------------ *)
CrcPolls(creply) ==
    IF creply.quiet + 1 <= CrcBudget THEN creply.quiet + 1 ELSE CrcBudget

crc(data, creply) == <<creply.lsb, creply.msb>>

(* ------------------------------------------------------------------ *)
(* _request, _anticoll, _selectTag                                    *)
(* ------------------------------------------------------------------ *)
\* request with the bit count left unchecked
MutRequest(mode, reply) ==
    LET r == tocard(CMD_TRANCEIVE, <<mode>>, reply)
    IN  [stat |-> IF r.stat # OK THEN ERR ELSE r.stat,
         bits |-> r.bits]

request(mode, reply) ==
    LET r == tocard(CMD_TRANCEIVE, <<mode>>, reply)
    IN  [stat |-> IF r.stat # OK \/ r.bits # 16 THEN ERR ELSE r.stat,
         bits |-> r.bits]

RECURSIVE XorFold(_, _, _)
\* for i in range(count): ser_chk = ser_chk ^ recv[i]
XorFold(recv, count, ser_chk) ==
    IF count = 0 THEN ser_chk
    ELSE BitXor(XorFold(recv, count - 1, ser_chk), recv[count])

\* anticollCheck with the checksum left unchecked
MutAnticollNoChecksum(r) ==
    IF r.stat = OK
    THEN IF Len(r.recv) = 5
         THEN [stat |-> r.stat, recv |-> r.recv]
         ELSE [stat |-> ERR, recv |-> r.recv]
    ELSE [stat |-> r.stat, recv |-> r.recv]

\* lines 207-215 on the result r of the Transceive
anticollCheck(r) ==
    IF r.stat = OK
    THEN IF Len(r.recv) = 5
         THEN IF XorFold(r.recv, 4, 0) # r.recv[5]
              THEN [stat |-> ERR, recv |-> r.recv]
              ELSE [stat |-> r.stat, recv |-> r.recv]
         ELSE [stat |-> ERR, recv |-> r.recv]
    ELSE [stat |-> r.stat, recv |-> r.recv]

anticollFrame(anticolN) == <<anticolN, NVB_ANTICOLL>>

anticoll(anticolN, reply) ==
    anticollCheck(tocard(CMD_TRANCEIVE, anticollFrame(anticolN), reply))

selectFrame(serNum, anticolN, creply) ==
    LET buf == <<anticolN, NVB_SELECT>> \o serNum
    IN  buf \o crc(buf, creply)

selectTag(serNum, anticolN, creply, reply) ==
    LET r == tocard(CMD_TRANCEIVE, selectFrame(serNum, anticolN, creply), reply)
    IN  IF r.stat = OK /\ r.bits = 24 THEN 1 ELSE 0

(* ------------------------------------------------------------------ *)
(* _readTagID's formatting (lines 260-271)                            *)
(* ------------------------------------------------------------------ *)
HexDigits == <<"0", "1", "2", "3", "4", "5", "6", "7",
               "8", "9", "a", "b", "c", "d", "e", "f">>

RECURSIVE hex(_)
\* hex(n)[2:] of Python for n >= 0: lowercase, no leading zeros
hex(n) ==
    IF n < 16 THEN <<HexDigits[n + 1]>>
    ELSE hex(n \div 16) \o <<HexDigits[(n % 16) + 1]>>

\* str.upper() on one character
upperChar(c) ==
    CASE c = "a" -> "A" [] c = "b" -> "B" [] c = "c" -> "C"
      [] c = "d" -> "D" [] c = "e" -> "E" [] c = "f" -> "F"
      [] OTHER -> c

upper(s) == [j \in 1..Len(s) |-> upperChar(s[j])]

RECURSIVE MutFormatLoop(_, _)
\* formatLoop with the separator's test off by one
MutFormatLoop(id, count) ==
    IF count = 0 THEN << >>
    ELSE LET i    == count - 1
             s0   == MutFormatLoop(id, count - 1)
             s1   == IF i > 1 THEN s0 \o <<":">> ELSE s0
             s2   == IF id[i + 1] < 16 THEN s1 \o <<"0">> ELSE s1
         IN  s2 \o hex(id[i + 1])

RECURSIVE formatLoop(_, _)
\* the first `count` iterations of the loop of lines 262-267
formatLoop(id, count) ==
    IF count = 0 THEN << >>
    ELSE LET i    == count - 1
             s0   == formatLoop(id, count - 1)
             s1   == IF i > 0 THEN s0 \o <<":">> ELSE s0
             s2   == IF id[i + 1] < 16 THEN s1 \o <<"0">> ELSE s1
         IN  s2 \o hex(id[i + 1])

\* line 236
emptyResult ==
    [success |-> FALSE, id_integers |-> << >>, id_formatted |-> << >>, type |-> ""]

\* assemble with the checksum byte kept
MutAssemble(valid_uid0, uid0) ==
    LET id == valid_uid0 \o Slice(uid0, 0, 5)
    IN  [success      |-> TRUE,
         id_integers  |-> id,
         id_formatted |-> upper(formatLoop(id, Len(id))),
         type         |-> IF Len(id) = 4 THEN "classic" ELSE "ntag"]

\* lines 259-271: the result of _readTagID once the cascade has ended well
assemble(valid_uid0, uid0) ==
    LET v  == valid_uid0 \o Slice(uid0, 0, 5)
        id == Slice(v, 0, Len(v) - 1)
    IN  [success      |-> TRUE,
         id_integers  |-> id,
         id_formatted |-> upper(formatLoop(id, Len(id))),
         type         |-> IF Len(id) = 4 THEN "classic" ELSE "ntag"]

\* lines 304-308: what readTagID returns for the result of _readTagID
\* (None when the tag was not present and _readTagID was not run)
readTagIDResult(inner) ==
    IF inner.success
    THEN [success |-> inner.success, id_integers |-> inner.id_integers,
          id_formatted |-> inner.id_formatted, type |-> inner.type]
    ELSE [success |-> FALSE, id_integers |-> <<0>>, id_formatted |-> << >>,
          type |-> ""]

\* lines 275-280
detectTag(reply) ==
    LET rq == request(TAG_CMD_REQIDL, reply)
    IN  [present |-> (rq.stat = OK), ATQA |-> rq.bits]

(* ------------------------------------------------------------------ *)
(* The chip's replies the model draws from                            *)
(* ------------------------------------------------------------------ *)
Reply(quiet, irq, err, level, ctrl, data) ==
    [quiet |-> quiet, irq |-> irq, err |-> err, level |-> level,
     ctrl |-> ctrl, data |-> data]

\* 0x88 04 12 34 with its checksum 0xAA: a cascade-tag fragment
Frag88 == <<136, 4, 18, 52, 170>>
\* 01 02 03 04 with its checksum 0x04: a final fragment
FragPlain == <<1, 2, 3, 4, 4>>
\* 00 FF 0A A0 with its checksum 0x55: a final fragment
FragMixed == <<0, 255, 10, 160, 85>>
\* 01 02 03 04 with a wrong checksum
FragBad == <<1, 2, 3, 4, 5>>

ChipReplies ==
    { Reply(0, 68, 0, 0, 0, <<0>>),               \* no wait or timer bit, ever
      Reply(2, 1, 0, 0, 0, <<0>>),                \* the timer fires: no tag
      Reply(0, 16, 0, 0, 0, <<0>>),               \* idle, nothing received
      Reply(PollBudget - 1, 48, 0, 2, 0, <<4, 0>>), \* ATQA seen by the last poll
      Reply(PollBudget, 48, 0, 2, 0, <<4, 0>>),   \* ATQA one poll too late
      Reply(0, 48, 8, 2, 0, <<4, 0>>),            \* a collision error
      Reply(0, 48, 0, 2, 0, <<4, 0>>),            \* ATQA, 16 bits
      Reply(0, 48, 0, 2, 7, <<4, 0>>),            \* 15 bits
      Reply(1, 32, 0, 3, 0, <<4, 218, 23>>),      \* select acknowledged, 24 bits
      Reply(1, 32, 0, 3, 7, <<4, 218, 23>>),      \* 23 bits
      Reply(0, 48, 0, 5, 0, Frag88),
      Reply(0, 48, 0, 5, 0, FragPlain),
      Reply(0, 48, 0, 5, 0, FragMixed),
      Reply(0, 48, 0, 5, 0, FragBad),
      Reply(0, 48, 0, 5, 3, FragPlain),           \* 5 bytes, 35 bits
      Reply(0, 48, 0, 4, 0, <<1, 2, 3, 4>>) }     \* 4 bytes

CrcReply(quiet, lsb, msb) == [quiet |-> quiet, lsb |-> lsb, msb |-> msb]

CrcReplies ==
    { CrcReply(3, 18, 52),                        \* done after 4 polls
      CrcReply(CrcBudget, 0, 0) }                 \* never done: stale registers

\* the chip received nothing: its FIFO holds no byte
NoTagAnswers(reply) == reply.level = 0

(* ------------------------------------------------------------------ *)
(* The allow-lists: a Python dict is a function on the keys it holds, *)
(* a str is a sequence of characters, a file is the text written to   *)
(* it.                                                                *)
(* ------------------------------------------------------------------ *)
EmptyDict == [n \in {} |-> << >>]

Has(d, n) == n \in DOMAIN d

Put(d, n, v) == [m \in DOMAIN d \cup {n} |-> IF m = n THEN v ELSE d[m]]

Del(d, n) == [m \in DOMAIN d \ {n} |-> d[m]]

\* `x in l` for a Python list
In(x, l) == \E i \in DOMAIN l : l[i] = x

\* l.remove(x): the first x is taken out
Remove(l, x) ==
    LET k == CHOOSE i \in DOMAIN l : l[i] = x /\ \A j \in 1..(i - 1) : l[j] # x
    IN  SubSeq(l, 1, k - 1) \o SubSeq(l, k + 1, Len(l))

\* json.dump of a list of strings of hex digits and colons (line 339)
jsonItem(str) == <<"\"">> \o str \o <<"\"">>

RECURSIVE jsonJoin(_)
jsonJoin(l) ==
    IF l = << >> THEN << >>
    ELSE IF Len(l) = 1 THEN jsonItem(l[1])
    ELSE jsonItem(l[1]) \o <<",", " ">> \o jsonJoin(Tail(l))

jsonDump(l) == <<"[">> \o jsonJoin(l) \o <<"]">>

\* json.load (line 326) of the texts json.dump writes; any other text is
\* either not JSON (ValueError) or not a list: ok is FALSE for both
RECURSIVE jsonItems(_, _, _)
jsonItems(t, i, acc) ==
    IF i > Len(t) \/ t[i] # "\"" THEN [ok |-> FALSE, data |-> << >>]
    ELSE IF ~\E j \in (i + 1)..Len(t) : t[j] = "\""
    THEN [ok |-> FALSE, data |-> << >>]
    ELSE LET j == CHOOSE k \in (i + 1)..Len(t) :
                      t[k] = "\"" /\ \A m \in (i + 1)..(k - 1) : t[m] # "\""
             item == SubSeq(t, i + 1, j - 1)
         IN  IF j = Len(t) THEN [ok |-> TRUE, data |-> Append(acc, item)]
             ELSE IF j + 2 <= Len(t) /\ t[j + 1] = "," /\ t[j + 2] = " "
             THEN jsonItems(t, j + 3, Append(acc, item))
             ELSE [ok |-> FALSE, data |-> << >>]

jsonLoad(text) ==
    IF Len(text) >= 2 /\ text[1] = "[" /\ text[Len(text)] = "]"
    THEN IF Len(text) = 2 THEN [ok |-> TRUE, data |-> << >>]
         ELSE jsonItems(SubSeq(text, 2, Len(text) - 1), 1, << >>)
    ELSE [ok |-> FALSE, data |-> << >>]

\* load_list (lines 322-333): the data it stores and returns
loadData(fs, name) ==
    IF ~Has(fs, name) THEN << >>
    ELSE IF jsonLoad(fs[name]).ok THEN jsonLoad(fs[name]).data
    ELSE << >>

\* lines 347-348, 360-361, 370-371, 375-376: the list is loaded if absent
Loaded(ls, fs, name) ==
    IF Has(ls, name) THEN ls ELSE Put(ls, name, loadData(fs, name))

\* tagPresent (lines 318-320) and readID (lines 311-315) of the result
\* their readTagID call returned
tagPresent(res) == res.success

readID(res) == res.id_formatted

\* scan_card (lines 341-344): o1 is the outcome of tagPresent's
\* identification, o2 of readID's
scan_card(o1, o2) ==
    IF tagPresent(o1.res) THEN readID(o2.res) ELSE << >>

(* ------------------------------------------------------------------ *)
(* State                                                              *)
(* ------------------------------------------------------------------ *)
VARIABLES
    pc,                   \* where the running call stands; "idle" between calls
    tag_present,          \* self._tag_present
    read_tag_id_success,  \* self._read_tag_id_success
    lists,                \* self.lists
    files,                \* the persisted list files: name |-> text of <name>.json
    call,                 \* history: the list name and the identifications of the last list operation
    bitFraming,           \* the chip's BIT_FRAMING register
    uid,                  \* _readTagID's uid
    valid_uid,            \* _readTagID's valid_uid
    cmds,                 \* history: the chip commands of the running/last call
    result,               \* the value the last call returned
    last,                 \* history: the operation that ran last
    hist,                 \* history: the latest _detectTag calls made in a row
    input,                \* the argument of a function applied on its own
    output                \* and what it returned

prog == <<pc, tag_present, read_tag_id_success, lists, files, call, bitFraming, uid,
          valid_uid, cmds, result, last, hist>>

vars == <<pc, tag_present, read_tag_id_success, lists, files, call, bitFraming, uid,
          valid_uid, cmds, result, last, hist, input, output>>

NoResult == [none |-> TRUE]

\* how many _detectTag calls in a row the history keeps
MaxDetectRuns == 2

\* no list operation has run
NoCall == [name |-> "", runs |-> << >>, uuid |-> << >>]

\* lines 66-89: the fields after construction; BIT_FRAMING after a soft reset
InitFields ==
    /\ pc = "idle"
    /\ tag_present = FALSE
    /\ read_tag_id_success = FALSE
    /\ lists = EmptyDict
    /\ call = NoCall
    /\ bitFraming = 0
    /\ uid = << >>
    /\ valid_uid = << >>
    /\ cmds = << >>
    /\ result = NoResult
    /\ last = "init"
    /\ hist = << >>

\* the object is constructed where no list file is persisted
InitProg ==
    /\ InitFields
    /\ files = EmptyDict

Init ==
    /\ InitProg
    /\ input = NoResult
    /\ output = NoResult

\* line 194 and line 205: what _request and _anticoll write to BIT_FRAMING
requestFraming == 7
anticollFraming == 0

\* one entry of the command history
Entry(kind, sel, framing, send, reply, tc, ok) ==
    [kind |-> kind, sel |-> sel, framing |-> framing, send |-> send,
     reply |-> reply, tc |-> tc, ok |-> ok]

RequestEntry(reply) ==
    Entry("request", TAG_CMD_REQIDL, requestFraming, <<TAG_CMD_REQIDL>>, reply,
          tocard(CMD_TRANCEIVE, <<TAG_CMD_REQIDL>>, reply),
          detectTag(reply).present)

AnticollEntry(anticolN, reply) ==
    Entry("anticoll", anticolN, anticollFraming, anticollFrame(anticolN), reply,
          tocard(CMD_TRANCEIVE, anticollFrame(anticolN), reply),
          anticoll(anticolN, reply).stat = OK)

SelectEntry(serNum, anticolN, framing, creply, reply) ==
    Entry("select", anticolN, framing, selectFrame(serNum, anticolN, creply), reply,
          tocard(CMD_TRANCEIVE, selectFrame(serNum, anticolN, creply), reply),
          selectTag(serNum, anticolN, creply, reply) = 1)

\* the latest MaxDetectRuns entries of h
Window(h) ==
    IF Len(h) > MaxDetectRuns THEN SubSeq(h, Len(h) - MaxDetectRuns + 1, Len(h)) ELSE h

\* readTagID returns (lines 304-308) with the result `inner` of _readTagID;
\* the locals of _readTagID are gone
Return(inner) ==
    /\ read_tag_id_success' = inner.success
    /\ result' = readTagIDResult(inner)
    /\ pc' = "idle"
    /\ uid' = << >>
    /\ valid_uid' = << >>

\* the call goes on to its next chip command
Goto(label, uid1, valid_uid1) ==
    /\ pc' = label
    /\ uid' = uid1
    /\ valid_uid' = valid_uid1
    /\ UNCHANGED <<read_tag_id_success, result>>

(* ------------------------------------------------------------------ *)
(* Operations                                                         *)
(* ------------------------------------------------------------------ *)
\* DetectTag that also records the outcome in _read_tag_id_success
MutDetectTag ==
    /\ pc = "idle"
    /\ \E reply \in ChipReplies :
         /\ tag_present' = detectTag(reply).present
         /\ read_tag_id_success' = detectTag(reply).present
         /\ result' = detectTag(reply)
         /\ cmds' = <<RequestEntry(reply)>>
         /\ hist' = Window(Append(hist, [noTag   |-> NoTagAnswers(reply),
                                         present |-> detectTag(reply).present]))
    /\ bitFraming' = FramingAfterTocard(CMD_TRANCEIVE, requestFraming)
    /\ last' = "detectTag"
    /\ UNCHANGED <<pc, lists, files, call, uid, valid_uid, input, output>>

\* _detectTag called on its own (lines 274-280)
DetectTag ==
    /\ pc = "idle"
    /\ \E reply \in ChipReplies :
         /\ tag_present' = detectTag(reply).present
         /\ result' = detectTag(reply)
         /\ cmds' = <<RequestEntry(reply)>>
         /\ hist' = Window(Append(hist, [noTag   |-> NoTagAnswers(reply),
                                         present |-> detectTag(reply).present]))
    /\ bitFraming' = FramingAfterTocard(CMD_TRANCEIVE, requestFraming)
    /\ last' = "detectTag"
    /\ UNCHANGED <<pc, read_tag_id_success, lists, files, call, uid, valid_uid, input, output>>

\* readTagID is entered (line 298)
CallReadTagID ==
    /\ pc = "idle"
    /\ pc' = "detect1"
    /\ cmds' = << >>
    /\ hist' = << >>
    /\ result' = NoResult
    /\ last' = "readTagID"
    /\ UNCHANGED <<tag_present, read_tag_id_success, lists, files, call, bitFraming, uid,
                   valid_uid, input, output>>

\* Detect1 that goes on to the cascade whatever the detection said
MutDetect1 ==
    /\ pc = "detect1"
    /\ \E reply \in ChipReplies :
         /\ tag_present' = detectTag(reply).present
         /\ cmds' = Append(cmds, RequestEntry(reply))
         /\ Goto("anticoll1", uid, valid_uid)
    /\ bitFraming' = FramingAfterTocard(CMD_TRANCEIVE, requestFraming)
    /\ UNCHANGED <<lists, files, call, last, hist, input, output>>

\* line 299, and line 300's test
Detect1 ==
    /\ pc = "detect1"
    /\ \E reply \in ChipReplies :
         /\ tag_present' = detectTag(reply).present
         /\ cmds' = Append(cmds, RequestEntry(reply))
         /\ IF detectTag(reply).present = FALSE
            THEN Goto("detect2", uid, valid_uid)
            ELSE Goto("anticoll1", uid, valid_uid)
    /\ bitFraming' = FramingAfterTocard(CMD_TRANCEIVE, requestFraming)
    /\ UNCHANGED <<lists, files, call, last, hist, input, output>>

\* line 301, line 302's test, and lines 307-308 when the tag is absent
Detect2 ==
    /\ pc = "detect2"
    /\ \E reply \in ChipReplies :
         /\ tag_present' = detectTag(reply).present
         /\ cmds' = Append(cmds, RequestEntry(reply))
         /\ IF detectTag(reply).present
            THEN Goto("anticoll1", uid, valid_uid)
            ELSE Return(emptyResult)
    /\ bitFraming' = FramingAfterTocard(CMD_TRANCEIVE, requestFraming)
    /\ UNCHANGED <<lists, files, call, last, hist, input, output>>

\* lines 238-240
Anticoll1 ==
    /\ pc = "anticoll1"
    /\ \E reply \in ChipReplies :
         LET a == anticoll(TAG_CMD_ANTCOL1, reply)
         IN  /\ cmds' = Append(cmds, AnticollEntry(TAG_CMD_ANTCOL1, reply))
             /\ IF a.stat # OK
                THEN Return(emptyResult)
                ELSE Goto("select1", a.recv, valid_uid)
    /\ bitFraming' = FramingAfterTocard(CMD_TRANCEIVE, anticollFraming)
    /\ UNCHANGED <<tag_present, lists, files, call, last, hist, input, output>>

\* Select1 that escalates whatever the fragment's first byte is
MutSelect1 ==
    /\ pc = "select1"
    /\ \E reply \in ChipReplies, creply \in CrcReplies :
         /\ cmds' = Append(cmds, SelectEntry(uid, TAG_CMD_ANTCOL1, bitFraming,
                                              creply, reply))
         /\ IF selectTag(uid, TAG_CMD_ANTCOL1, creply, reply) = 0
            THEN Return(emptyResult)
            ELSE Goto("anticoll2", uid, valid_uid \o Slice(uid, 1, 4))
    /\ bitFraming' = FramingAfterTocard(CMD_TRANCEIVE, bitFraming)
    /\ UNCHANGED <<tag_present, lists, files, call, last, hist, input, output>>

\* lines 242-246, and lines 259-271 when the fragment does not escalate
Select1 ==
    /\ pc = "select1"
    /\ \E reply \in ChipReplies, creply \in CrcReplies :
         /\ cmds' = Append(cmds, SelectEntry(uid, TAG_CMD_ANTCOL1, bitFraming,
                                              creply, reply))
         /\ IF selectTag(uid, TAG_CMD_ANTCOL1, creply, reply) = 0
            THEN Return(emptyResult)
            ELSE IF uid[1] = CascadeTag
            THEN Goto("anticoll2", uid, valid_uid \o Slice(uid, 1, 4))
            ELSE Return(assemble(valid_uid, uid))
    /\ bitFraming' = FramingAfterTocard(CMD_TRANCEIVE, bitFraming)
    /\ UNCHANGED <<tag_present, lists, files, call, last, hist, input, output>>

\* lines 247-249
Anticoll2 ==
    /\ pc = "anticoll2"
    /\ \E reply \in ChipReplies :
         LET a == anticoll(TAG_CMD_ANTCOL2, reply)
         IN  /\ cmds' = Append(cmds, AnticollEntry(TAG_CMD_ANTCOL2, reply))
             /\ IF a.stat # OK
                THEN Return(emptyResult)
                ELSE Goto("select2", a.recv, valid_uid)
    /\ bitFraming' = FramingAfterTocard(CMD_TRANCEIVE, anticollFraming)
    /\ UNCHANGED <<tag_present, lists, files, call, last, hist, input, output>>

\* lines 250-255, and lines 259-271 when the fragment does not escalate
Select2 ==
    /\ pc = "select2"
    /\ \E reply \in ChipReplies, creply \in CrcReplies :
         /\ cmds' = Append(cmds, SelectEntry(uid, TAG_CMD_ANTCOL2, bitFraming,
                                              creply, reply))
         /\ IF selectTag(uid, TAG_CMD_ANTCOL2, creply, reply) = 0
            THEN Return(emptyResult)
            ELSE IF uid[1] = CascadeTag
            THEN Goto("anticoll3", uid, valid_uid \o Slice(uid, 1, 4))
            ELSE Return(assemble(valid_uid, uid))
    /\ bitFraming' = FramingAfterTocard(CMD_TRANCEIVE, bitFraming)
    /\ UNCHANGED <<tag_present, lists, files, call, last, hist, input, output>>

\* lines 256-258, then lines 259-271
Anticoll3 ==
    /\ pc = "anticoll3"
    /\ \E reply \in ChipReplies :
         LET a == anticoll(TAG_CMD_ANTCOL3, reply)
         IN  /\ cmds' = Append(cmds, AnticollEntry(TAG_CMD_ANTCOL3, reply))
             /\ IF a.stat # OK
                THEN Return(emptyResult)
                ELSE Return(assemble(valid_uid, a.recv))
    /\ bitFraming' = FramingAfterTocard(CMD_TRANCEIVE, anticollFraming)
    /\ UNCHANGED <<tag_present, lists, files, call, last, hist, input, output>>

Next ==
    \/ DetectTag
    \/ CallReadTagID
    \/ Detect1
    \/ Detect2
    \/ Anticoll1
    \/ Select1
    \/ Anticoll2
    \/ Select2
    \/ Anticoll3

Spec == Init /\ [][Next]_vars

\* the steps of a running readTagID call
InCall ==
    \/ Detect1
    \/ Detect2
    \/ Anticoll1
    \/ Select1
    \/ Anticoll2
    \/ Select2
    \/ Anticoll3

(* ------------------------------------------------------------------ *)
(* Functions applied on their own: the argument is drawn by the       *)
(* initial state, one step applies the function.                      *)
(* ------------------------------------------------------------------ *)
\* the longest FIFO answer the anticollision inputs hold
MaxRecvLen == 6

ByteSample == {0, 136, 255}

AnticollInputs ==
    { [anticolN |-> a, reply |-> Reply(q, irq, err, Len(d), ctrl, d)] :
        a \in {TAG_CMD_ANTCOL1, TAG_CMD_ANTCOL2, TAG_CMD_ANTCOL3},
        q \in {0, PollBudget}, irq \in {1, 48}, err \in {0, 8}, ctrl \in {0, 3},
        d \in UNION { [1..len -> ByteSample] : len \in 1..MaxRecvLen } }

InitAnticoll ==
    /\ InitProg
    /\ input \in AnticollInputs
    /\ output = NoResult

\* _anticoll (lines 201-215)
ApplyAnticoll ==
    /\ output = NoResult
    /\ output' = anticoll(input.anticolN, input.reply)
    /\ UNCHANGED <<prog, input>>

SpecAnticoll == InitAnticoll /\ [][ApplyAnticoll]_vars

\* UIDs of each length the cascade produces, every byte value at every place
UidLengths == {4, 7, 10}

Strides == {1, 17, 85}

UidOf(len, base, stride) == [j \in 1..len |-> (base + (j - 1) * stride) % 256]

\* valid_uid and uid as _readTagID holds them at line 259 for the UID id:
\* the last four bytes are the final fragment, with its checksum
FormatInput(id) ==
    LET tail == SubSeq(id, Len(id) - 3, Len(id))
    IN  [id        |-> id,
         valid_uid |-> SubSeq(id, 1, Len(id) - 4),
         uid       |-> Append(tail, XorFold(tail, 4, 0))]

InitFormat ==
    /\ InitProg
    /\ input \in { FormatInput(UidOf(len, base, stride)) :
                     len \in UidLengths, base \in 0..255, stride \in Strides }
    /\ output = NoResult

\* lines 259-271 of _readTagID
ApplyAssemble ==
    /\ output = NoResult
    /\ output' = assemble(input.valid_uid, input.uid)
    /\ UNCHANGED <<prog, input>>

SpecFormat == InitFormat /\ [][ApplyAssemble]_vars

\* the bytes successive reads of FIFO_DATA return
FifoData == [j \in 1..16 |-> 16 + j]

TocardInputs ==
    { [cmd |-> c, reply |-> Reply(q, irq, err, level, ctrl, FifoData)] :
        c \in {CMD_TRANCEIVE, CMD_MF_AUTHENT, CMD_IDLE},
        q \in {0, 1, PollBudget - 2, PollBudget - 1, PollBudget},
        irq \in {0, 1, 16, 17, 32, 68},
        err \in {0, 4, 8},
        level \in {0, 1, 2, 5, 16, 17, 64},
        ctrl \in 0..7 \cup {16} }

InitTocard ==
    /\ InitProg
    /\ input \in TocardInputs
    /\ output = NoResult

\* _tocard (lines 116-171)
ApplyTocard ==
    /\ output = NoResult
    /\ output' = tocard(input.cmd, <<TAG_CMD_REQIDL>>, input.reply)
    /\ UNCHANGED <<prog, input>>

SpecTocard == InitTocard /\ [][ApplyTocard]_vars

\* the TX_CONTROL register holds any byte before the call
AntennaInputs ==
    { [op |-> op, txControl |-> tx] :
        op \in {"antennaOn", "antennaOff"}, tx \in 0..255 }

InitAntenna ==
    /\ InitProg
    /\ input \in AntennaInputs
    /\ output = NoResult

\* antennaOn (lines 287-289) or antennaOff (lines 292-294)
ApplyAntenna ==
    /\ output = NoResult
    /\ output' = [txControl |-> IF input.op = "antennaOn"
                                THEN antennaOn(input.txControl)
                                ELSE antennaOff(input.txControl)]
    /\ UNCHANGED <<prog, input>>

SpecAntenna == InitAntenna /\ [][ApplyAntenna]_vars

\* a command, its payload, and BIT_FRAMING and FIFO_LEVEL as _tocard finds
\* them: BIT_FRAMING as the caller wrote it (lines 194, 203), FIFO_LEVEL
\* as the chip's 64-byte FIFO was left
WritesInputs ==
    { [cmd |-> c, send |-> snd, framing |-> f, level |-> lv] :
        c \in {CMD_TRANCEIVE, CMD_MF_AUTHENT, CMD_IDLE},
        snd \in {<<TAG_CMD_REQIDL>>, anticollFrame(TAG_CMD_ANTCOL1),
                 anticollFrame(TAG_CMD_ANTCOL2), anticollFrame(TAG_CMD_ANTCOL3)},
        f \in {requestFraming, anticollFraming},
        lv \in {0, 1, 2, 5, 16, 17, 64} }

InitWrites ==
    /\ InitProg
    /\ input \in WritesInputs
    /\ output = NoResult

\* the register writes of one _tocard call (lines 127-147)
ApplyTocardWrites ==
    /\ output = NoResult
    /\ output' = [writes |-> tocardWrites(input.cmd, input.send,
                                          input.framing, input.level)]
    /\ UNCHANGED <<prog, input>>

SpecWrites == InitWrites /\ [][ApplyTocardWrites]_vars

(* ------------------------------------------------------------------ *)
(* The allow-list operations. Each runs its identifications through   *)
(* readTagID; what one identification leaves behind is its outcome:   *)
(* the result readTagID returned and whether _detectTag saw a tag.    *)
(* ------------------------------------------------------------------ *)
ListNames == {"a", "b"}

\* the UIDs of the cards shown to the reader: the single-size UID of
\* FragPlain and the double-size UID of Frag88 followed by FragMixed
PlainUid == SubSeq(FragPlain, 1, 4)

CardUids == {PlainUid, SubSeq(Frag88, 2, 4) \o SubSeq(FragMixed, 1, 4)}

\* lines 307-308
IdentFailed == readTagIDResult(emptyResult)

\* lines 303-306 for the card with UID id
IdentOf(id) ==
    readTagIDResult(assemble(FormatInput(id).valid_uid, FormatInput(id).uid))

Outcome(present, res) == [present |-> present, res |-> res]

Outcomes ==
    {Outcome(FALSE, IdentFailed), Outcome(TRUE, IdentFailed)}
        \cup {Outcome(TRUE, IdentOf(id)) : id \in CardUids}

\* the identification scan_card ran last
FinalRun(o1, o2) == IF tagPresent(o1.res) THEN o2 ELSE o1

\* scan_card within the operation on list `name`: the fields and
\* BIT_FRAMING are as its last readTagID call left them
Scan(name, o1, o2) ==
    /\ call' = [name |-> name,
                runs |-> IF tagPresent(o1.res) THEN <<o1, o2>> ELSE <<o1>>,
                uuid |-> scan_card(o1, o2)]
    /\ tag_present' = FinalRun(o1, o2).present
    /\ read_tag_id_success' = FinalRun(o1, o2).res.success
    /\ bitFraming' = IF FinalRun(o1, o2).present
                     THEN anticollFraming ELSE requestFraming

\* an operation that scans no card
NoScan(name) ==
    /\ call' = [name |-> name, runs |-> << >>, uuid |-> << >>]
    /\ UNCHANGED <<tag_present, read_tag_id_success, bitFraming>>

\* scan_card called on its own (lines 341-344)
ScanCard ==
    /\ pc = "idle"
    /\ \E o1 \in Outcomes, o2 \in Outcomes :
         /\ Scan("", o1, o2)
         /\ result' = [returned |-> scan_card(o1, o2)]
    /\ last' = "scan_card"
    /\ UNCHANGED <<pc, lists, files, uid, valid_uid, cmds, hist, input, output>>

\* ScanAndAddCard without the test `uuid not in self.lists[list_name]`
MutScanAndAddCardNoMembership ==
    /\ pc = "idle"
    /\ \E name \in ListNames, o1 \in Outcomes, o2 \in Outcomes :
         LET ls    == Loaded(lists, files, name)
             uuid  == scan_card(o1, o2)
             grown == Append(ls[name], uuid)
         IN  /\ Scan(name, o1, o2)
             /\ IF uuid = << >>
                THEN lists' = ls /\ files' = files
                ELSE /\ lists' = Put(ls, name, grown)
                     /\ files' = Put(files, name, jsonDump(grown))
    /\ result' = NoResult
    /\ last' = "scan_and_add_card"
    /\ UNCHANGED <<pc, uid, valid_uid, cmds, hist, input, output>>

\* ScanAndAddCard without the test `if not uuid`
MutScanAndAddCardNoGuard ==
    /\ pc = "idle"
    /\ \E name \in ListNames, o1 \in Outcomes, o2 \in Outcomes :
         LET ls    == Loaded(lists, files, name)
             uuid  == scan_card(o1, o2)
             grown == Append(ls[name], uuid)
         IN  /\ Scan(name, o1, o2)
             /\ IF ~In(uuid, ls[name])
                THEN /\ lists' = Put(ls, name, grown)
                     /\ files' = Put(files, name, jsonDump(grown))
                ELSE lists' = ls /\ files' = files
    /\ result' = NoResult
    /\ last' = "scan_and_add_card"
    /\ UNCHANGED <<pc, uid, valid_uid, cmds, hist, input, output>>

\* scan_and_add_card (lines 346-357)
ScanAndAddCard ==
    /\ pc = "idle"
    /\ \E name \in ListNames, o1 \in Outcomes, o2 \in Outcomes :
         LET ls    == Loaded(lists, files, name)
             uuid  == scan_card(o1, o2)
             grown == Append(ls[name], uuid)
         IN  /\ Scan(name, o1, o2)
             /\ IF uuid = << >>
                THEN lists' = ls /\ files' = files
                ELSE IF ~In(uuid, ls[name])
                THEN /\ lists' = Put(ls, name, grown)
                     /\ files' = Put(files, name, jsonDump(grown))
                ELSE lists' = ls /\ files' = files
    /\ result' = NoResult
    /\ last' = "scan_and_add_card"
    /\ UNCHANGED <<pc, uid, valid_uid, cmds, hist, input, output>>

\* scan_and_check (lines 359-367)
ScanAndCheck ==
    /\ pc = "idle"
    /\ \E name \in ListNames, o1 \in Outcomes, o2 \in Outcomes :
         LET ls   == Loaded(lists, files, name)
             uuid == scan_card(o1, o2)
         IN  /\ Scan(name, o1, o2)
             /\ lists' = ls
             /\ result' = [returned |-> IF uuid = << >> THEN FALSE
                                        ELSE In(uuid, ls[name])]
    /\ last' = "scan_and_check"
    /\ UNCHANGED <<pc, files, uid, valid_uid, cmds, hist, input, output>>

\* get_list (lines 369-372)
GetList ==
    /\ pc = "idle"
    /\ \E name \in ListNames :
         LET ls == Loaded(lists, files, name)
         IN  /\ NoScan(name)
             /\ lists' = ls
             /\ result' = [returned |-> ls[name]]
    /\ last' = "get_list"
    /\ UNCHANGED <<pc, files, uid, valid_uid, cmds, hist, input, output>>

\* scan_and_remove_card (lines 374-392); uos.remove of a missing file
\* raises OSError, which is passed over
ScanAndRemoveCard ==
    /\ pc = "idle"
    /\ \E name \in ListNames, o1 \in Outcomes, o2 \in Outcomes :
         LET ls   == Loaded(lists, files, name)
             uuid == scan_card(o1, o2)
             rest == Remove(ls[name], uuid)
         IN  /\ Scan(name, o1, o2)
             /\ IF In(uuid, ls[name])
                THEN IF rest = << >>
                     THEN /\ files' = Del(files, name)
                          /\ lists' = Del(ls, name)
                     ELSE /\ lists' = Put(ls, name, rest)
                          /\ files' = Put(files, name, jsonDump(rest))
                ELSE lists' = ls /\ files' = files
    /\ result' = NoResult
    /\ last' = "scan_and_remove_card"
    /\ UNCHANGED <<pc, uid, valid_uid, cmds, hist, input, output>>

\* clear_list (lines 394-402)
ClearList ==
    /\ pc = "idle"
    /\ \E name \in ListNames :
         /\ NoScan(name)
         /\ lists' = Del(lists, name)
         /\ files' = Del(files, name)
    /\ result' = NoResult
    /\ last' = "clear_list"
    /\ UNCHANGED <<pc, uid, valid_uid, cmds, hist, input, output>>

NextLists ==
    \/ ScanCard
    \/ ScanAndAddCard
    \/ ScanAndCheck
    \/ GetList
    \/ ScanAndRemoveCard
    \/ ClearList

SpecLists == Init /\ [][NextLists]_vars

\* list files persisted before the object is constructed: none, a list of
\* one UID, a list that holds a UID twice, a text that is no JSON list
StartFiles ==
    LET a == IdentOf(PlainUid).id_formatted
    IN  { EmptyDict,
          Put(EmptyDict, "a", jsonDump(<<a>>)),
          Put(EmptyDict, "a", jsonDump(<<a, a>>)),
          Put(EmptyDict, "b", <<"{", "}">>) }

InitListsPre ==
    /\ InitFields
    /\ files \in StartFiles
    /\ input = NoResult
    /\ output = NoResult

SpecListsPre == InitListsPre /\ [][NextLists]_vars

(* ------------------------------------------------------------------ *)
(* What the claims are stated with                                    *)
(* ------------------------------------------------------------------ *)
Returned == pc = "idle" /\ last = "readTagID"

ReqIdx == {i \in DOMAIN cmds : cmds[i].kind = "request"}

Issued(kind, sel) ==
    \E i \in DOMAIN cmds : cmds[i].kind = kind /\ cmds[i].sel = sel

\* the XOR of the first four bytes of a five-byte answer
Xor4(f) == BitXor(BitXor(BitXor(f[1], f[2]), f[3]), f[4])

\* the fragment at level sel was accepted, began with 0x88 and was selected
Escalated(sel) ==
    \E i, j \in DOMAIN cmds :
        /\ i < j
        /\ cmds[i].kind = "anticoll" /\ cmds[i].sel = sel /\ cmds[i].ok
        /\ cmds[i].tc.recv[1] = CascadeTag
        /\ cmds[j].kind = "select" /\ cmds[j].sel = sel /\ cmds[j].ok

\* the answer to the anticollision at level sel
Fragment(sel) ==
    cmds[CHOOSE i \in DOMAIN cmds :
            cmds[i].kind = "anticoll" /\ cmds[i].sel = sel].tc.recv

\* no poll of the budget saw a wait or timer bit
Exhausted(cmd, reply) ==
    ~(IrqBreaks(cmd, reply.irq) /\ reply.quiet + 1 <= PollBudget)

(* ------------------------------------------------------------------ *)
(* C1: whenever readTagID returns success=false, the UID it returns   *)
(* is the empty sequence, and id_formatted and type are empty.        *)
(* ------------------------------------------------------------------ *)
C1_FailureReturnsEmptyUid ==
    (Returned /\ ~result.success) =>
        /\ result.id_integers = << >>
        /\ result.id_formatted = << >>
        /\ result.type = ""

(* ------------------------------------------------------------------ *)
(* C2: one readTagID call runs detect once when the first detect      *)
(* reports present and exactly twice when it reports absent, never a  *)
(* third time, and runs the cascade only if the last detect it ran    *)
(* reported present.                                                  *)
(* ------------------------------------------------------------------ *)
C2_DetectOnceOrTwice ==
    last = "readTagID" =>
        /\ ReqIdx \subseteq {1, 2}
        /\ (cmds # << >> => 1 \in ReqIdx)
        /\ (2 \in ReqIdx => ~cmds[1].ok)
        /\ (pc = "idle" => /\ 1 \in ReqIdx
                           /\ (cmds[1].ok => ReqIdx = {1})
                           /\ (~cmds[1].ok => ReqIdx = {1, 2}))
        /\ \A i \in DOMAIN cmds :
             cmds[i].kind # "request" =>
                 /\ \A j \in ReqIdx : j < i
                 /\ \E j \in ReqIdx : (\A k \in ReqIdx : k <= j) /\ cmds[j].ok

C2_Witness ==
    /\ Returned
    /\ ReqIdx = {1, 2}
    /\ ~cmds[1].ok /\ cmds[2].ok
    /\ Len(cmds) >= 3

(* ------------------------------------------------------------------ *)
(* C3: for a 5-byte answer with outcome Ok, _anticoll returns Ok iff  *)
(* the XOR of the first four bytes equals the fifth; an Ok answer of  *)
(* another length and every non-Ok outcome are returned as failures.  *)
(* ------------------------------------------------------------------ *)
C3_AnticollChecksum ==
    output # NoResult =>
        LET r == tocard(CMD_TRANCEIVE, <<input.anticolN, 32>>, input.reply)
        IN  /\ (r.stat = OK /\ Len(r.recv) = 5 =>
                  (output.stat = OK <=> Xor4(r.recv) = r.recv[5]))
            /\ (r.stat = OK /\ Len(r.recv) # 5 => output.stat # OK)
            /\ (r.stat # OK => output.stat # OK)
            /\ output.recv = r.recv

C3_Witness ==
    /\ output # NoResult
    /\ output.stat = ERR
    /\ Len(output.recv) = 5
    /\ tocard(CMD_TRANCEIVE, <<input.anticolN, 32>>, input.reply).stat = OK
    /\ Xor4(output.recv) # output.recv[5]

(* ------------------------------------------------------------------ *)
(* C4: an anticollision at L2 (L3) is issued iff the L1 (L2) fragment *)
(* was accepted and selected and begins with 0x88; when the L1        *)
(* fragment does not begin with 0x88 no L2 or L3 command is sent and  *)
(* the UID has 4 bytes.                                               *)
(* ------------------------------------------------------------------ *)
C4_CascadeEscalation ==
    last = "readTagID" =>
        /\ (Issued("anticoll", TAG_CMD_ANTCOL2) => Escalated(TAG_CMD_ANTCOL1))
        /\ (Issued("anticoll", TAG_CMD_ANTCOL3) => Escalated(TAG_CMD_ANTCOL2))
        /\ (pc = "idle" =>
              /\ (Escalated(TAG_CMD_ANTCOL1) => Issued("anticoll", TAG_CMD_ANTCOL2))
              /\ (Escalated(TAG_CMD_ANTCOL2) => Issued("anticoll", TAG_CMD_ANTCOL3)))
        /\ \A i \in DOMAIN cmds :
             (/\ cmds[i].kind = "anticoll" /\ cmds[i].sel = TAG_CMD_ANTCOL1
              /\ cmds[i].ok /\ cmds[i].tc.recv[1] # CascadeTag) =>
                 /\ \A j \in DOMAIN cmds :
                      cmds[j].sel \notin {TAG_CMD_ANTCOL2, TAG_CMD_ANTCOL3}
                 /\ (pc = "idle" /\ result.success => Len(result.id_integers) = 4)
                 /\ (pc = "idle" /\ Len(cmds) > i /\ cmds[i + 1].ok =>
                        result.success /\ Len(result.id_integers) = 4)

C4_Witness ==
    /\ Returned
    /\ result.success
    /\ Issued("anticoll", TAG_CMD_ANTCOL2)
    /\ ~Issued("anticoll", TAG_CMD_ANTCOL3)
    /\ Fragment(TAG_CMD_ANTCOL1)[1] = CascadeTag
    /\ Fragment(TAG_CMD_ANTCOL2)[1] # CascadeTag

(* ------------------------------------------------------------------ *)
(* C5: on success the UID is bytes 1..3 of each escalated fragment in *)
(* level order, then bytes 0..3 of the final fragment; its length is  *)
(* 4, 7 or 10; the type is "classic" exactly when the length is 4 and *)
(* "ntag" when it is 7 or 10.                                         *)
(* ------------------------------------------------------------------ *)
Mid(f) == <<f[2], f[3], f[4]>>

Lead(f) == <<f[1], f[2], f[3], f[4]>>

ExpectedUid ==
    LET f1 == Fragment(TAG_CMD_ANTCOL1)
    IN  IF f1[1] # CascadeTag THEN Lead(f1)
        ELSE LET f2 == Fragment(TAG_CMD_ANTCOL2)
             IN  IF f2[1] # CascadeTag THEN Mid(f1) \o Lead(f2)
                 ELSE Mid(f1) \o Mid(f2) \o Lead(Fragment(TAG_CMD_ANTCOL3))

C5_UidAssembly ==
    (Returned /\ result.success) =>
        /\ result.id_integers = ExpectedUid
        /\ Len(result.id_integers) \in {4, 7, 10}
        /\ (result.type = "classic" <=> Len(result.id_integers) = 4)
        /\ (Len(result.id_integers) \in {7, 10} => result.type = "ntag")

\* Scenario B of the spec
C5_Witness ==
    /\ Returned
    /\ result.success
    /\ result.id_integers = <<4, 18, 52, 1, 2, 3, 4>>
    /\ result.type = "ntag"
    /\ result.id_formatted = <<"0", "4", ":", "1", "2", ":", "3", "4", ":",
                               "0", "1", ":", "0", "2", ":", "0", "3", ":",
                               "0", "4">>

(* ------------------------------------------------------------------ *)
(* C6: a checksum mismatch, an unexpected bit length (request not 16  *)
(* bits, anticollision not 40, select not 24) or an exhausted poll    *)
(* budget at any step makes the identification fail: success=false is *)
(* returned, no command follows the failing step, and no UID byte     *)
(* accumulated from an earlier level is in the result.  The request   *)
(* meant is the second one: the first one's failure is retried.       *)
(* ------------------------------------------------------------------ *)
ChecksumMismatch(e) == Len(e.tc.recv) = 5 /\ Xor4(e.tc.recv) # e.tc.recv[5]

FailsAt(i) ==
    LET e == cmds[i]
    IN  \/ e.kind = "request" /\ i = 2
           /\ (e.tc.bits # 16 \/ Exhausted(CMD_TRANCEIVE, e.reply))
        \/ e.kind = "anticoll"
           /\ (e.tc.bits # 40 \/ ChecksumMismatch(e)
               \/ Exhausted(CMD_TRANCEIVE, e.reply))
        \/ e.kind = "select"
           /\ (e.tc.bits # 24 \/ Exhausted(CMD_TRANCEIVE, e.reply))

\* s holds the three bytes of t in a row
Holds(s, t) ==
    \E k \in 1..Len(s) : k + 2 <= Len(s) /\ <<s[k], s[k + 1], s[k + 2]>> = t

NoPartialUid ==
    \A j \in DOMAIN cmds :
        (cmds[j].kind = "anticoll" /\ cmds[j].ok) =>
            ~Holds(result.id_integers, Mid(cmds[j].tc.recv))

C6_AnyFailureAborts ==
    last = "readTagID" =>
        \A i \in DOMAIN cmds :
            FailsAt(i) => /\ pc = "idle"
                          /\ ~result.success
                          /\ i = Len(cmds)
                          /\ NoPartialUid

(* ------------------------------------------------------------------ *)
(* C7: for every UID of length 4, 7 or 10 the id_formatted string     *)
(* (two uppercase hex digits per byte, joined by ':') splits on ':'   *)
(* and hex-decodes back to exactly the id_integers bytes.             *)
(* ------------------------------------------------------------------ *)
UpperDigits == <<"0", "1", "2", "3", "4", "5", "6", "7",
                 "8", "9", "A", "B", "C", "D", "E", "F">>

RECURSIVE SplitColon(_)
\* s.split(':')
SplitColon(s) ==
    IF \A k \in DOMAIN s : s[k] # ":" THEN <<s>>
    ELSE LET k == CHOOSE k \in DOMAIN s :
                      s[k] = ":" /\ \A m \in 1..(k - 1) : s[m] # ":"
         IN  <<SubSeq(s, 1, k - 1)>> \o SplitColon(SubSeq(s, k + 1, Len(s)))

HexValue(c) ==
    CHOOSE v \in 0..15 : UpperDigits[v + 1] = c \/ HexDigits[v + 1] = c

RECURSIVE HexDecode(_)
\* int(tok, 16)
HexDecode(tok) ==
    IF tok = << >> THEN 0
    ELSE 16 * HexDecode(SubSeq(tok, 1, Len(tok) - 1)) + HexValue(tok[Len(tok)])

ParseFormatted(s) ==
    LET toks == SplitColon(s) IN [j \in DOMAIN toks |-> HexDecode(toks[j])]

TwoUpperDigits(tok) ==
    Len(tok) = 2 /\ \A k \in 1..2 : \E v \in 1..16 : UpperDigits[v] = tok[k]

C7_FormatRoundTrip ==
    output # NoResult =>
        /\ output.id_integers = input.id
        /\ ParseFormatted(output.id_formatted) = output.id_integers
        /\ \A j \in DOMAIN SplitColon(output.id_formatted) :
               TwoUpperDigits(SplitColon(output.id_formatted)[j])

\* a 10-byte UID with a byte below 16, a byte with letters and 0xFF
C7_Witness ==
    /\ output # NoResult
    /\ Len(output.id_integers) = 10
    /\ output.id_integers[1] = 10
    /\ output.id_integers[10] = 163
    /\ \E j \in 1..10 : output.id_integers[j] = 78
    /\ SubSeq(output.id_formatted, 1, 6) = <<"0", "A", ":", "1", "B", ":">>

(* ------------------------------------------------------------------ *)
(* C8: _detectTag called twice in a row while no tag answers returns  *)
(* present=false both times; a detect call changes neither            *)
(* _read_tag_id_success nor the allow-lists: of the object's fields   *)
(* only _tag_present may change.                                      *)
(* ------------------------------------------------------------------ *)
DetectStep == pc = "idle" /\ pc' = "idle" /\ last' = "detectTag"

C8_DetectFrame ==
    /\ [][DetectStep =>
            /\ read_tag_id_success' = read_tag_id_success
            /\ lists' = lists
            /\ (hist'[Len(hist')].noTag =>
                    result'.present = FALSE /\ tag_present' = FALSE)]_vars
    /\ [](\A j \in DOMAIN hist : hist[j].noTag => ~hist[j].present)

C8_Witness ==
    /\ last = "detectTag"
    /\ Len(hist) = 2
    /\ hist[1].noTag /\ ~hist[1].present
    /\ hist[2].noTag /\ ~hist[2].present
    /\ result.present = FALSE
    /\ tag_present = FALSE
    /\ read_tag_id_success = TRUE

(* ------------------------------------------------------------------ *)
(* C9: _detectTag reports present=true iff the REQA transceive        *)
(* (payload [0x26], BIT_FRAMING set to 7 beforehand) ends with        *)
(* outcome Ok and exactly 16 received bits; every other result of the *)
(* command, NoTag and Ok with another bit count too, is present=false.*)
(* ------------------------------------------------------------------ *)
C9_PresentIffOk16 ==
    /\ \A i \in ReqIdx :
         /\ cmds[i].send = <<38>>
         /\ cmds[i].framing = 7
         /\ (cmds[i].ok <=> (cmds[i].tc.stat = OK /\ cmds[i].tc.bits = 16))
    /\ (last = "detectTag" =>
          /\ result.present = cmds[1].ok
          /\ tag_present = result.present)
    /\ (last = "readTagID" /\ ReqIdx # {} /\ pc # "idle" =>
          \E i \in ReqIdx : (\A k \in ReqIdx : k <= i) /\ tag_present = cmds[i].ok)

\* outcome Ok with 15 bits: not present
C9_Witness ==
    /\ last = "detectTag"
    /\ cmds[1].tc.stat = OK
    /\ cmds[1].tc.bits = 15
    /\ result.present = FALSE
    /\ tag_present = FALSE

(* ------------------------------------------------------------------ *)
(* C10: for a Transceive, if COM_IRQ shows a wait bit (mask 0x30)     *)
(* with the timer bit clear on the k-th poll, for any k in 1..20000,  *)
(* and ERROR has none of the bits 0x1B, _tocard returns Ok with the   *)
(* drained FIFO response; the timeout Error is returned only when no  *)
(* poll within the budget saw the wait bit or the timer bit.          *)
(* ------------------------------------------------------------------ *)
C10_FlagWithinBudgetIsOk ==
    (output # NoResult /\ input.cmd = CMD_TRANCEIVE) =>
        LET r == input.reply
            k == r.quiet + 1
            n == IF r.level = 0 THEN 1 ELSE IF r.level > 16 THEN 16 ELSE r.level
        IN  /\ (/\ k \in 1..20000
                /\ BitAnd(r.irq, 48) # 0
                /\ BitAnd(r.irq, 1) = 0
                /\ BitAnd(r.err, 27) = 0) =>
                   /\ output.stat = OK
                   /\ output.recv = SubSeq(r.data, 1, n)
            /\ (output.stat = ERR /\ BitAnd(r.err, 27) = 0) =>
                   ~(k \in 1..20000 /\ (BitAnd(r.irq, 48) # 0 \/ BitAnd(r.irq, 1) # 0))

C12_BitsWithinBytes ==
    output # NoResult => output.bits <= 8 * Len(output.recv)

(* ------------------------------------------------------------------ *)
(* C13: _tocard returns NoTag only when the poll ended within budget, *)
(* the error register has no bit of 0x1B, the last polled interrupt   *)
(* value has the timer bit 0x01 and the command's interrupt-enable    *)
(* mask contains 0x01 (never for Authenticate); a NoTag result has an *)
(* empty response and bit count 0.                                    *)
(* ------------------------------------------------------------------ *)
C13_NoTagConditions ==
    output # NoResult /\ output.stat = NOTAGERR =>
        /\ input.reply.quiet + 1 <= PollBudget
        /\ BitAnd(input.reply.err, 27) = 0
        /\ BitAnd(input.reply.irq, 1) # 0
        /\ BitAnd(irq_en_of(input.cmd), 1) # 0
        /\ input.cmd # CMD_MF_AUTHENT
        /\ output.recv = << >>
        /\ output.bits = 0

C13_Witness ==
    /\ output # NoResult
    /\ output.stat = NOTAGERR
    /\ input.cmd = CMD_TRANCEIVE
    /\ input.reply.level > 0

(* ------------------------------------------------------------------ *)
(* C14: after antennaOff() returns, the low two bits (0x03) of the    *)
(* tx-control register are clear, whatever it held before; after      *)
(* antennaOn() returns, both bits are set.                            *)
(* ------------------------------------------------------------------ *)
C14_AntennaBits ==
    output # NoResult =>
        /\ (input.op = "antennaOff" => BitAnd(output.txControl, 3) = 0)
        /\ (input.op = "antennaOn" => BitAnd(output.txControl, 3) = 3)

(* ------------------------------------------------------------------ *)
(* C16: in _tocard for a Transceive, the payload is written to the    *)
(* FIFO, then the start-send bit (0x80) of BIT_FRAMING is cleared and *)
(* then set, and only after that is the Transceive opcode written to  *)
(* the command register; the start-send bit is never first set after  *)
(* the command write.                                                 *)
(* ------------------------------------------------------------------ *)
FifoWrites(w) == {i \in DOMAIN w : w[i].reg = "FIFO_DATA"}

CommandWrites(w, cmd) ==
    {i \in DOMAIN w : w[i].reg = "COMMAND" /\ w[i].val = cmd}

StartSendSets(w) ==
    {i \in DOMAIN w : w[i].reg = "BIT_FRAMING" /\ BitAnd(w[i].val, 128) # 0}

StartSendClears(w) ==
    {i \in DOMAIN w : w[i].reg = "BIT_FRAMING" /\ BitAnd(w[i].val, 128) = 0}

SelectAcked(e) ==
    e.kind = "select" /\ e.tc.stat = OK /\ e.tc.bits = 24

C17_SelectAtEveryLevel ==
    Returned =>
        \A i \in DOMAIN cmds :
            cmds[i].kind = "anticoll" /\ cmds[i].ok =>
                /\ i < Len(cmds)
                /\ cmds[i + 1].kind = "select"
                /\ cmds[i + 1].sel = cmds[i].sel
                /\ cmds[i + 1].send[1] = cmds[i].sel
                /\ cmds[i + 1].send[2] = NVB_SELECT
                /\ (result.success => SelectAcked(cmds[i + 1]))

(* ------------------------------------------------------------------ *)
(* C18: every readTagID call terminates whatever the chip registers   *)
(* read: each command polling loop of _tocard reads COM_IRQ at most   *)
(* 20000 times, each CRC polling loop of _crc reads DIV_IRQ at most   *)
(* 255 times and then returns the result registers as [low, high]     *)
(* without retrying, and one identification runs at most 2 request,   *)
(* 3 anticollision and 2 select commands.                             *)
(* ------------------------------------------------------------------ *)
CountOf(kind) == Cardinality({i \in DOMAIN cmds : cmds[i].kind = kind})

CrcTail(e) == SubSeq(e.send, Len(e.send) - 1, Len(e.send))

CommandBounds ==
    /\ \A i \in DOMAIN cmds :
         /\ PollLoop(CMD_TRANCEIVE, cmds[i].reply).polls >= 1
         /\ PollLoop(CMD_TRANCEIVE, cmds[i].reply).polls <= 20000
         /\ cmds[i].kind = "select" =>
              /\ Len(cmds[i].send) = 9
              /\ \E creply \in CrcReplies :
                   /\ CrcPolls(creply) <= 255
                   /\ CrcTail(cmds[i]) = <<creply.lsb, creply.msb>>
              /\ \A j \in DOMAIN cmds :
                   cmds[j].kind = "select" /\ cmds[j].sel = cmds[i].sel => j = i
    /\ last = "readTagID" =>
         /\ CountOf("request") <= 2
         /\ CountOf("anticoll") <= 3
         /\ CountOf("select") <= 2

\* a running call can always take its next step, each step issues one more
\* chip command, and the commands of a call are bounded: the call returns
C18_BoundedIdentification ==
    /\ [](CommandBounds /\ (pc # "idle" => ENABLED InCall))
    /\ [][pc # "idle" => Len(cmds') = Len(cmds) + 1]_vars

C18_Witness ==
    /\ Returned
    /\ CountOf("request") = 2
    /\ CountOf("anticoll") = 3
    /\ CountOf("select") = 2
    /\ \E i \in DOMAIN cmds : PollLoop(CMD_TRANCEIVE, cmds[i].reply).polls = 20000
    /\ \E i \in DOMAIN cmds : cmds[i].kind = "select" /\ CrcTail(cmds[i]) = <<0, 0>>

(* ------------------------------------------------------------------ *)
(* C15: starting with no persisted list files, after any sequence of  *)
(* scan_and_add_card, scan_and_remove_card, scan_and_check, get_list  *)
(* and clear_list calls with any scan results: no in-memory list      *)
(* holds the same UID twice; every non-empty in-memory list equals    *)
(* the content of its persisted file; no persisted file holds an      *)
(* empty list; and removing the last UID of a list deletes both its   *)
(* file and its in-memory entry.                                      *)
(* ------------------------------------------------------------------ *)
NoDuplicate(l) == \A i \in DOMAIN l, j \in DOMAIN l : l[i] = l[j] => i = j

ListsAndFilesAgree ==
    /\ \A n \in DOMAIN lists :
         /\ NoDuplicate(lists[n])
         /\ lists[n] # << >> =>
              /\ Has(files, n)
              /\ jsonLoad(files[n]).ok
              /\ jsonLoad(files[n]).data = lists[n]
    /\ \A n \in DOMAIN files :
         /\ jsonLoad(files[n]).ok
         /\ jsonLoad(files[n]).data # << >>

RemovesLast(n) ==
    /\ last' = "scan_and_remove_card"
    /\ call'.name = n
    /\ call'.uuid # << >>
    /\ Loaded(lists, files, n)[n] = <<call'.uuid>>

C15_ListsMatchFiles ==
    /\ []ListsAndFilesAgree
    /\ [][\A n \in ListNames :
            RemovesLast(n) => ~Has(lists', n) /\ ~Has(files', n)]_vars

C15_Witness ==
    /\ last = "scan_and_remove_card"
    /\ call.uuid # << >>
    /\ ~Has(lists, call.name)
    /\ ~Has(files, call.name)
    /\ \E n \in DOMAIN lists : Len(lists[n]) = 2 /\ Has(files, n)

(* ------------------------------------------------------------------ *)
(* C19: scan_card returns the formatted UID of the same               *)
(* identification whose success it tested: whenever the               *)
(* identification run by tagPresent succeeds, scan_card returns that  *)
(* identification's id_formatted, and it returns the empty string     *)
(* only when that identification failed.                              *)
(* ------------------------------------------------------------------ *)
C19_SameIdentification ==
    call.runs # << >> =>
        /\ (tagPresent(call.runs[1].res) =>
                call.uuid = call.runs[1].res.id_formatted)
        /\ (call.uuid = << >> => ~tagPresent(call.runs[1].res))

(* ------------------------------------------------------------------ *)
(* C20: starting from lists that do not hold the empty string, no     *)
(* sequence of scan_and_add_card, scan_and_remove_card,               *)
(* scan_and_check and clear_list calls stores the empty string in an  *)
(* in-memory list or a persisted file, even when the second           *)
(* identification inside scan_card fails after the first succeeded;   *)
(* and scan_and_check returns false whenever scan_card returned the   *)
(* empty string.                                                      *)
(* ------------------------------------------------------------------ *)
C20_NoEmptyUidStored ==
    /\ \A n \in DOMAIN lists : ~In(<< >>, lists[n])
    /\ \A n \in DOMAIN files : ~In(<< >>, loadData(files, n))
    /\ (last = "scan_and_check" /\ call.uuid = << >> =>
            result.returned = FALSE)

C20_Witness ==
    /\ last \in {"scan_and_add_card", "scan_and_check"}
    /\ Len(call.runs) = 2
    /\ tagPresent(call.runs[1].res)
    /\ ~tagPresent(call.runs[2].res)
    /\ call.uuid = << >>
    /\ Has(lists, call.name)
    /\ Has(files, call.name)
    /\ lists[call.name] # << >>

====
